---- MODULE Spec2Model ----
(***************************************************************************)
(* Moving-average profit/loss calculator (calculate_pl.js).                *)
(*                                                                         *)
(* Numbers.  The program computes with JavaScript numbers.  Here a number  *)
(* is an exact rational <<n, d>> in lowest terms with d > 0, so that the   *)
(* division totalCost / quantity and the rounding of toFixed(2) are        *)
(* computed and not assumed.  Binary rounding error of doubles is not      *)
(* represented.                                                            *)
(*                                                                         *)
(* Text.  A CSV line is the sequence of its comma-separated fields, a      *)
(* field is a string.  The text produced by toFixed(2) is represented by   *)
(* its sign and its value in hundredths.                                   *)
(***************************************************************************)
EXTENDS Integers, Sequences, FiniteSets, TLC

VARIABLES
  pc,                \* where the run stands
  inputCsv,          \* the input text: its lines, a line being its fields
  columnInfo,        \* ensureRequiredColumns' result
  records,           \* parseRecords' result, the argument of the engine
  sorted,            \* sortRecords(records, columnInfo)
  idx,               \* number of records the for-loop has consumed
  record,            \* the loop variable: the record consumed last
  positions,         \* positions[code] = [quantity, totalCost]
  profitLossByIndex, \* one text per record, by originalIndex (1-based here)
  returned,          \* what calculateProfitLossForRecords returned
  outputCsv,         \* what calculateProfitLossCsv returned
  outputFile,        \* what runFileCalculation wrote
  error,             \* the Error thrown, NoError if none
  tally,             \* history: per code, the Buys and Sells consumed so far
  runs               \* history: the outcomes of the earlier calls of the engine

vars == <<pc, inputCsv, columnInfo, records, sorted, idx, record, positions,
          profitLossByIndex, returned, outputCsv, outputFile, error, tally,
          runs>>

----------------------------------------------------------------------------
(* Bounds of the model *)

MaxRecords == 3
MaxPrice == 2
MaxQuantity == 2

----------------------------------------------------------------------------
(* Exact rational arithmetic *)

Abs(n) == IF n < 0 THEN -n ELSE n

RECURSIVE Gcd(_, _)
Gcd(a, b) == IF b = 0 THEN a ELSE Gcd(b, a % b)

Rat(n, d) ==
  LET g == Gcd(Abs(n), Abs(d))
      s == IF d < 0 THEN -1 ELSE 1
  IN  <<(s * n) \div g, (s * d) \div g>>

Num(n) == <<n, 1>>
Zero == Num(0)

\* The operations cancel common factors before they multiply, which keeps
\* the intermediate integers small; the values are those of the fractions.
RAdd(x, y) ==
  LET g == Gcd(x[2], y[2])
  IN  IF g = 0 THEN <<0, 0>>
      ELSE Rat(x[1] * (y[2] \div g) + y[1] * (x[2] \div g),
               (x[2] \div g) * y[2])
RSub(x, y) == RAdd(x, <<-y[1], y[2]>>)
RMul(x, y) ==
  LET g == Gcd(Abs(x[1]), Abs(y[2]))
      h == Gcd(Abs(y[1]), Abs(x[2]))
  IN  IF g = 0 \/ h = 0 THEN Rat(x[1] * y[1], x[2] * y[2])
      ELSE Rat((x[1] \div g) * (y[1] \div h), (x[2] \div h) * (y[2] \div g))
RDiv(x, y) == RMul(x, <<y[2], y[1]>>)
RLe(x, y) == x[1] * y[2] <= y[1] * x[2]
RLt(x, y) == x[1] * y[2] < y[1] * x[2]

\* 1e-8 and 1e-6, as the denominators of 1/10^8 and 1/10^6
QuantityEpsilonInv == 100000000
CostEpsilonInv == 1000000

\* x > 1/e, without forming n * e
GreaterThanInv(x, e) == x[1] > 0 /\ e >= (x[2] + x[1]) \div x[1]

\* Math.abs(x) < 1/e, without forming n * e
AbsLessThanInv(x, e) ==
  x[1] = 0 \/ e <= (x[2] - 1) \div Abs(x[1])

----------------------------------------------------------------------------
(* Number.prototype.toFixed(2) *)

Blank == [blank |-> TRUE, negative |-> FALSE, hundredths |-> 0]

\* Let n be an integer for which n / 100 - |x| is as close to zero as
\* possible; if there are two such n, pick the larger.
ToFixed2(x) ==
  LET a == Abs(x[1]) * 100
  IN  [blank |-> FALSE,
       negative |-> x[1] < 0,
       hundredths |-> (2 * a + x[2]) \div (2 * x[2])]

----------------------------------------------------------------------------
(* Values of the run *)

NoError == [message |-> "", detail |-> <<>>]
Thrown(message, detail) == [message |-> message, detail |-> detail]

ErrNonPositive == "Sell quantity must be positive"
ErrNoPosition == "Sell encountered without existing position"
ErrOversold == "Sell quantity exceeds position"

Nothing == [present |-> FALSE, value |-> <<>>]
Value(v) == [present |-> TRUE, value |-> v]

NoRecord ==
  [originalIndex |-> -1, cols |-> <<>>, asxCode |-> "", orderType |-> "",
   tradeDate |-> Zero, avgPrice |-> Zero, quantity |-> Zero]

\* new Array(n).fill('')
Blanks(n) == [k \in 1..n |-> Blank]

----------------------------------------------------------------------------
(* Field texts and their conversions.  The texts of the model are the ones *)
(* listed here; each conversion is tabulated on them.                      *)

NaN == <<0, 0>>
IsNaN(x) == x[2] = 0

\* String(value).replace(/"/g, '')
WithoutQuotes(s) ==
  CASE s = "\"2 \"" -> "2 "
    [] OTHER -> s

\* String.prototype.trim
Trim(s) ==
  CASE s = " " -> ""
    [] s = "1 " -> "1"
    [] s = "2 " -> "2"
    [] s = " 2024-01-02" -> "2024-01-02"
    [] OTHER -> s

\* String.prototype.trimEnd
TrimEnd(s) ==
  CASE s = " " -> ""
    [] s = "1 " -> "1"
    [] s = "2 " -> "2"
    [] s = "\"2 \"" -> "\"2 \""
    [] OTHER -> s

\* Number(trimmed), on a non-empty trimmed text
NumberOf(s) ==
  CASE s = "0" -> Num(0)
    [] s = "1" -> Num(1)
    [] s = "2" -> Num(2)
    [] s = "3" -> Num(3)
    [] s = "10" -> Num(10)
    [] s = "-1" -> Num(-1)
    [] s = "0.5" -> Rat(1, 2)
    [] s = "0.9999995" -> Rat(1999999, 2000000)
    [] OTHER -> NaN

\* new Date(trimmed).getTime(), in days since the epoch, on a non-empty
\* trimmed text; NaN[1] for an invalid date
DateOf(s) ==
  CASE s = "2024-01-01" -> <<19723, 1>>
    [] s = "2024-01-02" -> <<19724, 1>>
    [] s = "2024-01-03" -> <<19725, 1>>
    [] OTHER -> NaN

\* the order of String.prototype.localeCompare on the confirmation texts:
\* text order, "10" before "2"
Collation(s) ==
  CASE s = "" -> 0
    [] s = "1" -> 1
    [] s = "10" -> 2
    [] s = "2" -> 3
    [] OTHER -> 4

LocaleCompare(a, b) ==
  IF Collation(a) < Collation(b) THEN -1
  ELSE IF Collation(a) > Collation(b) THEN 1 ELSE 0

ErrNumber == "Unable to parse numeric value"
ErrDate == "Invalid Trade Date"
ErrEmpty == "Input CSV is empty"
ErrNoRows == "Input CSV has no data rows"
ErrColumns == "Missing required columns"

\* toNumber: the value, NaN standing for the Error thrown
ToNumber(value) ==
  LET trimmed == Trim(WithoutQuotes(value)) IN
  IF trimmed = "" THEN Zero ELSE NumberOf(trimmed)

\* parseTradeDate: the time, NaN standing for the Error thrown
ParseTradeDate(value) ==
  LET trimmed == Trim(value) IN
  IF trimmed = "" THEN Zero ELSE DateOf(trimmed)

\* cols[i] of a line, undefined read as '' (every use of a field treats the
\* two alike)
Field(cols, i) == IF i >= 0 /\ i < Len(cols) THEN cols[i + 1] ELSE ""

----------------------------------------------------------------------------
(* ensureRequiredColumns *)

Required == <<"AsxCode", "Order Type", "Trade Date", "Avg Price", "Quantity">>

\* index[name]: the last position of name in the header, -1 if absent
IndexOf(headerCols, name) ==
  LET at == {i \in 1..Len(headerCols) : headerCols[i] = name} IN
  IF at = {} THEN -1 ELSE (CHOOSE i \in at : \A j \in at : j <= i) - 1

\* as Missing, the search stopped at the first name that is absent
MissingFirst(headerCols) ==
  LET all == SelectSeq(Required, LAMBDA name : IndexOf(headerCols, name) = -1)
  IN  IF all = <<>> THEN <<>> ELSE <<all[1]>>

\* required.filter((name) => !(name in index))
Missing(headerCols) ==
  SelectSeq(Required, LAMBDA name : IndexOf(headerCols, name) = -1)

EnsureRequiredColumns(headerCols) ==
  [asxIdx |-> IndexOf(headerCols, "AsxCode"),
   orderTypeIdx |-> IndexOf(headerCols, "Order Type"),
   tradeDateIdx |-> IndexOf(headerCols, "Trade Date"),
   avgPriceIdx |-> IndexOf(headerCols, "Avg Price"),
   qtyIdx |-> IndexOf(headerCols, "Quantity"),
   confirmationIdx |-> IndexOf(headerCols, "Confirmation Number")]

----------------------------------------------------------------------------
(* parseRecords *)

ParseLine(line, originalIndex, info) ==
  [originalIndex |-> originalIndex,
   cols |-> line,
   asxCode |-> Field(line, info.asxIdx),
   orderType |-> Field(line, info.orderTypeIdx),
   tradeDate |-> ParseTradeDate(Field(line, info.tradeDateIdx)),
   avgPrice |-> ToNumber(Field(line, info.avgPriceIdx)),
   quantity |-> ToNumber(Field(line, info.qtyIdx))]

\* the Error a line throws: the date is parsed first, then the price, then
\* the quantity
LineError(line, info) ==
  IF IsNaN(ParseTradeDate(Field(line, info.tradeDateIdx)))
    THEN Thrown(ErrDate, <<Field(line, info.tradeDateIdx)>>)
  ELSE IF IsNaN(ToNumber(Field(line, info.avgPriceIdx)))
    THEN Thrown(ErrNumber, <<Field(line, info.avgPriceIdx)>>)
  ELSE IF IsNaN(ToNumber(Field(line, info.qtyIdx)))
    THEN Thrown(ErrNumber, <<Field(line, info.qtyIdx)>>)
  ELSE NoError

ParseRecords(lines, info) ==
  [k \in 1..Len(lines) |-> ParseLine(lines[k], k - 1, info)]

\* the Error of the first line, in input order, that throws
ParseError(lines, info) ==
  LET bad == {k \in 1..Len(lines) : LineError(lines[k], info) # NoError} IN
  IF bad = {} THEN NoError
  ELSE LineError(lines[CHOOSE k \in bad : \A j \in bad : k <= j], info)

----------------------------------------------------------------------------
(* sortRecords *)

\* as Compare, the confirmation numbers compared as numbers
CompareNumeric(a, b, info) ==
  LET tDiff == RSub(a.tradeDate, b.tradeDate)[1]
      aConf == Field(a.cols, info.confirmationIdx)
      bConf == Field(b.cols, info.confirmationIdx)
  IN  IF tDiff # 0 THEN tDiff
      ELSE IF info.confirmationIdx # -1 /\ aConf # bConf
        THEN RSub(ToNumber(aConf), ToNumber(bConf))[1]
      ELSE a.originalIndex - b.originalIndex

\* as Compare, without the confirmation numbers
CompareNoConfirmation(a, b, info) ==
  LET tDiff == RSub(a.tradeDate, b.tradeDate)[1]
  IN  IF tDiff # 0 THEN tDiff ELSE a.originalIndex - b.originalIndex

\* the comparator: negative, zero or positive
Compare(a, b, info) ==
  LET tDiff == RSub(a.tradeDate, b.tradeDate)[1]
      aConf == Field(a.cols, info.confirmationIdx)
      bConf == Field(b.cols, info.confirmationIdx)
  IN  IF tDiff # 0 THEN tDiff
      ELSE IF info.confirmationIdx # -1 /\ aConf # bConf
        THEN LocaleCompare(aConf, bConf)
      ELSE a.originalIndex - b.originalIndex

\* Array.prototype.sort is stable: rec goes before the first element it
\* compares less than
RECURSIVE Insert(_, _, _)
Insert(rec, seq, info) ==
  IF seq = <<>> THEN <<rec>>
  ELSE IF Compare(rec, Head(seq), info) < 0 THEN <<rec>> \o seq
  ELSE <<Head(seq)>> \o Insert(rec, Tail(seq), info)

RECURSIVE SortRecords(_, _)
\* as SortRecords, the records left in input order
SortRecordsInputOrder(recs, info) == recs

SortRecords(recs, info) ==
  IF recs = <<>> THEN <<>>
  ELSE Insert(recs[Len(recs)], SortRecords(SubSeq(recs, 1, Len(recs) - 1), info), info)

----------------------------------------------------------------------------
(* calculateProfitLossForRecords: the body of the for-loop *)

\* String.prototype case folding, for the i flag of the two patterns
LowerCase(s) ==
  CASE s \in {"Buy", "BUY", "buy"} -> "buy"
    [] s \in {"Sell", "SELL", "sell"} -> "sell"
    [] s = "Dividend" -> "dividend"
    [] OTHER -> s

\* as IsBuy, whatever is not a Sell taken for a Buy
IsBuyUnlessSell(orderType) == LowerCase(orderType) # "sell"

\* as IsSell, without the i flag
IsSellExactCase(orderType) == orderType = "sell"

IsBuy(orderType) == LowerCase(orderType) = "buy"
IsSell(orderType) == LowerCase(orderType) = "sell"

NewPosition == [quantity |-> Zero, totalCost |-> Zero]

\* as EnsurePosition, the table holding the position of one code at a time
EnsurePositionAlone(pos, code) ==
  code :> (IF code \in DOMAIN pos THEN pos[code] ELSE NewPosition)

\* if (!positions[code]) positions[code] = { quantity: 0, totalCost: 0 }
EnsurePosition(pos, code) ==
  IF code \in DOMAIN pos THEN pos ELSE (code :> NewPosition) @@ pos

\* as BuyPosition, the cost of a Buy taken as its price alone
BuyPositionPriceOnly(position, rec) ==
  [quantity |-> RAdd(position.quantity, rec.quantity),
   totalCost |-> RAdd(position.totalCost, rec.avgPrice)]

BuyPosition(position, rec) ==
  [quantity |-> RAdd(position.quantity, rec.quantity),
   totalCost |-> RAdd(position.totalCost, RMul(rec.avgPrice, rec.quantity))]

\* as SellError, an empty position tested with < in place of <=
SellErrorStrict(position, rec) ==
  IF RLe(rec.quantity, Zero) THEN ErrNonPositive
  ELSE IF RLt(position.quantity, Zero) \/ RLt(position.totalCost, Zero)
    THEN ErrNoPosition
  ELSE IF GreaterThanInv(RSub(rec.quantity, position.quantity), QuantityEpsilonInv)
    THEN ErrOversold
  ELSE ""

\* as SellError, the difference of the oversold test taken the other way
SellErrorSwapped(position, rec) ==
  IF RLe(rec.quantity, Zero) THEN ErrNonPositive
  ELSE IF RLe(position.quantity, Zero) \/ RLe(position.totalCost, Zero)
    THEN ErrNoPosition
  ELSE IF GreaterThanInv(RSub(position.quantity, rec.quantity), QuantityEpsilonInv)
    THEN ErrOversold
  ELSE ""

\* as SellError, the position tested before the quantity of the Sell
SellErrorPositionFirst(position, rec) ==
  IF RLe(position.quantity, Zero) \/ RLe(position.totalCost, Zero)
    THEN ErrNoPosition
  ELSE IF RLe(rec.quantity, Zero) THEN ErrNonPositive
  ELSE IF GreaterThanInv(RSub(rec.quantity, position.quantity), QuantityEpsilonInv)
    THEN ErrOversold
  ELSE ""

\* the three throw statements of the Sell branch, in their order
SellError(position, rec) ==
  IF RLe(rec.quantity, Zero) THEN ErrNonPositive
  ELSE IF RLe(position.quantity, Zero) \/ RLe(position.totalCost, Zero)
    THEN ErrNoPosition
  ELSE IF GreaterThanInv(RSub(rec.quantity, position.quantity), QuantityEpsilonInv)
    THEN ErrOversold
  ELSE ""

AverageCostPerShare(position) == RDiv(position.totalCost, position.quantity)

\* as CostBasis, the whole cost of the position taken as the cost sold
CostBasisWhole(position, rec) == position.totalCost

CostBasis(position, rec) == RMul(AverageCostPerShare(position), rec.quantity)

ProfitLoss(position, rec) ==
  RSub(RMul(rec.avgPrice, rec.quantity), CostBasis(position, rec))

\* as SellPosition, the cost of the position left as it was
SellPositionQuantityOnly(position, rec) ==
  LET q == RSub(position.quantity, rec.quantity)
  IN  [quantity |-> IF AbsLessThanInv(q, QuantityEpsilonInv) THEN Zero ELSE q,
       totalCost |-> position.totalCost]

\* as SellPosition, the cost reduced by the proceeds of the sale
SellPositionByProceeds(position, rec) ==
  LET q == RSub(position.quantity, rec.quantity)
      c == RSub(position.totalCost, RMul(rec.avgPrice, rec.quantity))
  IN  [quantity |-> IF AbsLessThanInv(q, QuantityEpsilonInv) THEN Zero ELSE q,
       totalCost |-> IF AbsLessThanInv(c, CostEpsilonInv) THEN Zero ELSE c]

SellPosition(position, rec) ==
  LET q == RSub(position.quantity, rec.quantity)
      c == RSub(position.totalCost, CostBasis(position, rec))
  IN  [quantity |-> IF AbsLessThanInv(q, QuantityEpsilonInv) THEN Zero ELSE q,
       totalCost |-> IF AbsLessThanInv(c, CostEpsilonInv) THEN Zero ELSE c]

\* One iteration on the locals st = [positions, profitLossByIndex, error].
LoopBody(st, rec) ==
  LET code == rec.asxCode IN
  IF code = "" THEN st
  ELSE
    LET pos == EnsurePosition(st.positions, code)
        position == pos[code]
    IN
    IF IsBuy(rec.orderType)
      THEN [st EXCEPT !.positions =
              [pos EXCEPT ![code] = BuyPosition(position, rec)]]
    ELSE IF IsSell(rec.orderType)
      THEN IF SellError(position, rec) # ""
             THEN [st EXCEPT !.positions = pos,
                             !.error = Thrown(SellError(position, rec), <<code>>)]
             ELSE [st EXCEPT
                     !.positions = [pos EXCEPT ![code] = SellPosition(position, rec)],
                     !.profitLossByIndex =
                        [@ EXCEPT ![rec.originalIndex + 1] =
                           ToFixed2(ProfitLoss(position, rec))]]
    ELSE [st EXCEPT !.positions = pos]

----------------------------------------------------------------------------
(* History of the run: what has been consumed for each code *)

NoTally == [buys |-> 0, sells |-> 0, buyQuantity |-> Zero, buyCost |-> Zero]

TallyOf(t, code) == IF code \in DOMAIN t THEN t[code] ELSE NoTally

Tallied(t, rec) ==
  LET old == TallyOf(t, rec.asxCode) IN
  IF rec.asxCode = "" THEN t
  ELSE IF IsBuy(rec.orderType)
    THEN (rec.asxCode :>
            [old EXCEPT !.buys = @ + 1,
                        !.buyQuantity = RAdd(@, rec.quantity),
                        !.buyCost = RAdd(@, RMul(rec.avgPrice, rec.quantity))]) @@ t
  ELSE IF IsSell(rec.orderType)
    THEN (rec.asxCode :> [old EXCEPT !.sells = @ + 1]) @@ t
  ELSE t

----------------------------------------------------------------------------
(* The engine on a ledger handed over in chronological order, each record  *)
(* being chosen when the loop reaches it.                                  *)

Codes == {"", "AAA"}
OrderTypes == {"Buy", "SELL", "Dividend"}

\* the records the i-th iteration may meet: every price and quantity on the
\* trades of an instrument, one price and quantity on the rows the loop skips
ChosenRecords(i) ==
  {[originalIndex |-> i, cols |-> <<>>, asxCode |-> "AAA", orderType |-> t,
    tradeDate |-> Num(i), avgPrice |-> Num(p), quantity |-> Num(q)] :
     t \in {"Buy", "SELL"}, p \in 0..MaxPrice, q \in (-1)..MaxQuantity}
  \cup
  {[originalIndex |-> i, cols |-> <<>>, asxCode |-> ct[1], orderType |-> ct[2],
    tradeDate |-> Num(i), avgPrice |-> Num(1), quantity |-> Num(1)] :
     ct \in {ct \in Codes \X OrderTypes : ct[1] = "" \/ ct[2] = "Dividend"}}

NoColumns ==
  [asxIdx |-> 0, orderTypeIdx |-> 0, tradeDateIdx |-> 0, avgPriceIdx |-> 0,
   qtyIdx |-> 0, confirmationIdx |-> -1]

Init ==
  /\ pc = "loop"
  /\ inputCsv = <<>>
  /\ columnInfo = NoColumns
  /\ records = <<>>
  /\ sorted = <<>>
  /\ idx = 0
  /\ record = NoRecord
  /\ positions = <<>>
  /\ \E n \in 1..MaxRecords : profitLossByIndex = Blanks(n)
  /\ returned = Nothing
  /\ outputCsv = Nothing
  /\ outputFile = Nothing
  /\ error = NoError
  /\ tally = <<>>
  /\ runs = <<>>

\* as Iterate, the record applied a second time
IterateTwice(rec) ==
  LET once == LoopBody([positions |-> positions,
                        profitLossByIndex |-> profitLossByIndex,
                        error |-> NoError], rec)
      st == IF once.error # NoError THEN once ELSE LoopBody(once, rec)
  IN  /\ record' = rec
      /\ idx' = idx + 1
      /\ tally' = Tallied(tally, rec)
      /\ positions' = st.positions
      /\ profitLossByIndex' = st.profitLossByIndex
      /\ error' = st.error
      /\ pc' = IF st.error # NoError THEN "failed" ELSE pc

\* as Iterate, the Error of a Sell noted and the loop carried on
IterateCarryOn(rec) ==
  LET st == LoopBody([positions |-> positions,
                      profitLossByIndex |-> profitLossByIndex,
                      error |-> NoError], rec)
  IN  /\ record' = rec
      /\ idx' = idx + 1
      /\ tally' = Tallied(tally, rec)
      /\ positions' = st.positions
      /\ profitLossByIndex' = st.profitLossByIndex
      /\ error' = IF st.error # NoError THEN st.error ELSE error
      /\ pc' = pc

\* for (const record of ...) { ... }: one iteration on rec
Iterate(rec) ==
  LET st == LoopBody([positions |-> positions,
                      profitLossByIndex |-> profitLossByIndex,
                      error |-> NoError], rec)
  IN  /\ record' = rec
      /\ idx' = idx + 1
      /\ tally' = Tallied(tally, rec)
      /\ positions' = st.positions
      /\ profitLossByIndex' = st.profitLossByIndex
      /\ error' = st.error
      /\ pc' = IF st.error # NoError THEN "failed" ELSE pc

Consume ==
  /\ pc = "loop"
  /\ idx < Len(profitLossByIndex)
  /\ \E rec \in ChosenRecords(idx) : Iterate(rec)
  /\ UNCHANGED <<inputCsv, columnInfo, records, sorted, returned, outputCsv,
                 outputFile, runs>>

\* return profitLossByIndex
Return ==
  /\ pc = "loop"
  /\ idx = Len(profitLossByIndex)
  /\ returned' = Value(profitLossByIndex)
  /\ pc' = "returned"
  /\ UNCHANGED <<inputCsv, columnInfo, records, sorted, idx, record, positions,
                 profitLossByIndex, outputCsv, outputFile, error, tally,
                 runs>>

Next == Consume \/ Return

Spec == Init /\ [][Next]_vars

----------------------------------------------------------------------------
(* calculateProfitLossForRecords as a function of its arguments *)

RECURSIVE RunLoop(_, _)
RunLoop(seq, st) ==
  IF seq = <<>> \/ st.error # NoError THEN st
  ELSE RunLoop(Tail(seq), LoopBody(st, Head(seq)))

CalculateProfitLossForRecords(recs, info) ==
  RunLoop(SortRecords(recs, info),
          [positions |-> <<>>,
           profitLossByIndex |-> Blanks(Len(recs)),
           error |-> NoError])

----------------------------------------------------------------------------
(* The loop of calculate_profit_loss.js, on the locals st = [positions,    *)
(* plByIndex]: no Sell is refused.                                         *)

\* as LegacyAvgCostPerShare, the average cost left at 0
LegacyAvgCostZero(pos) == Zero

\* let avgCostPerShare = 0;
\* if (pos.quantity > 0 && pos.totalCost > 0) avgCostPerShare = ...
LegacyAvgCostPerShare(pos) ==
  IF RLt(Zero, pos.quantity) /\ RLt(Zero, pos.totalCost)
    THEN RDiv(pos.totalCost, pos.quantity)
  ELSE Zero

LegacyBuy(pos, rec) ==
  [quantity |-> RAdd(pos.quantity, rec.quantity),
   totalCost |-> RAdd(pos.totalCost, RMul(rec.avgPrice, rec.quantity))]

LegacyCostBasis(pos, rec) == RMul(LegacyAvgCostPerShare(pos), rec.quantity)

LegacyPl(pos, rec) ==
  RSub(RMul(rec.avgPrice, rec.quantity), LegacyCostBasis(pos, rec))

LegacySell(pos, rec) ==
  LET q == RSub(pos.quantity, rec.quantity)
      c == RSub(pos.totalCost, LegacyCostBasis(pos, rec))
  IN  [quantity |-> IF AbsLessThanInv(q, QuantityEpsilonInv) THEN Zero ELSE q,
       totalCost |-> IF AbsLessThanInv(c, CostEpsilonInv) THEN Zero ELSE c]

LegacyLoopBody(st, rec) ==
  LET code == rec.asxCode IN
  IF code = "" THEN st
  ELSE
    LET made == IF code \in DOMAIN st.positions THEN st.positions
                ELSE (code :> [quantity |-> Zero, totalCost |-> Zero])
                       @@ st.positions
        pos == made[code]
    IN
    IF LowerCase(rec.orderType) = "buy"
      THEN [st EXCEPT !.positions = [made EXCEPT ![code] = LegacyBuy(pos, rec)]]
    ELSE IF LowerCase(rec.orderType) = "sell"
      THEN [st EXCEPT
              !.positions = [made EXCEPT ![code] = LegacySell(pos, rec)],
              !.plByIndex = [@ EXCEPT ![rec.originalIndex + 1] =
                               ToFixed2(LegacyPl(pos, rec))]]
    ELSE [st EXCEPT !.positions = made]

RECURSIVE LegacyRunLoop(_, _)
LegacyRunLoop(seq, st) ==
  IF seq = <<>> THEN st
  ELSE LegacyRunLoop(Tail(seq), LegacyLoopBody(st, Head(seq)))

\* the loop over the first k of the sorted records, n records in all
LegacyLoop(seq, k, n) ==
  LegacyRunLoop(SubSeq(seq, 1, k),
                [positions |-> <<>>, plByIndex |-> Blanks(n)])

----------------------------------------------------------------------------
(* calculateProfitLossCsv and runFileCalculation *)

\* line.trim() === ''
IsBlankLine(line) == Len(line) = 1 /\ Trim(line[1]) = ""

RECURSIVE DropTrailingBlank(_)
DropTrailingBlank(lines) ==
  IF lines = <<>> THEN <<>>
  ELSE IF IsBlankLine(lines[Len(lines)])
    THEN DropTrailingBlank(SubSeq(lines, 1, Len(lines) - 1))
  ELSE lines

\* inputCsv.trimEnd(): the blank lines at the end go, and so does the
\* whitespace that ends the last line left
InputTrimEnd(lines) ==
  LET kept == DropTrailingBlank(lines) IN
  IF kept = <<>> THEN <<>>
  ELSE [kept EXCEPT ![Len(kept)] =
          [@ EXCEPT ![Len(@)] = TrimEnd(@)]]

\* inputCsv.trimEnd().split(/\r?\n/).filter((line) => line.trim() !== '')
Lines(input) == SelectSeq(InputTrimEnd(input), LAMBDA line : ~IsBlankLine(line))

HeaderLine == Lines(inputCsv)[1]
DataLines == Tail(Lines(inputCsv))

BuildOutputCsv(headerLine, recs, pl) ==
  <<Append(headerLine, "ProfitLoss")>> \o
  [k \in 1..Len(recs) |-> Append(recs[k].cols, pl[recs[k].originalIndex + 1])]

engineVars ==
  <<sorted, idx, record, positions, profitLossByIndex, returned, tally, runs>>

\* as CheckInput, without the test for data rows
CheckInputRowsUnchecked ==
  /\ pc = "start"
  /\ IF Lines(inputCsv) = <<>>
       THEN pc' = "failed" /\ error' = Thrown(ErrEmpty, <<>>)
     ELSE pc' = "columns" /\ error' = error
  /\ UNCHANGED <<inputCsv, columnInfo, records, engineVars, outputCsv, outputFile>>

\* as CheckInput, the columns of the header looked at before the data rows
CheckInputColumnsFirst ==
  /\ pc = "start"
  /\ IF Lines(inputCsv) = <<>>
       THEN pc' = "failed" /\ error' = Thrown(ErrEmpty, <<>>)
     ELSE IF Missing(HeaderLine) # <<>>
       THEN pc' = "failed" /\ error' = Thrown(ErrColumns, Missing(HeaderLine))
     ELSE IF DataLines = <<>>
       THEN pc' = "failed" /\ error' = Thrown(ErrNoRows, <<>>)
     ELSE pc' = "columns" /\ error' = error
  /\ UNCHANGED <<inputCsv, columnInfo, records, engineVars, outputCsv, outputFile>>

\* the two checks of calculateProfitLossCsv on its input
CheckInput ==
  /\ pc = "start"
  /\ IF Lines(inputCsv) = <<>>
       THEN pc' = "failed" /\ error' = Thrown(ErrEmpty, <<>>)
     ELSE IF DataLines = <<>>
       THEN pc' = "failed" /\ error' = Thrown(ErrNoRows, <<>>)
     ELSE pc' = "columns" /\ error' = error
  /\ UNCHANGED <<inputCsv, columnInfo, records, engineVars, outputCsv, outputFile>>

EnsureColumns ==
  /\ pc = "columns"
  /\ IF Missing(HeaderLine) # <<>>
       THEN /\ pc' = "failed"
            /\ error' = Thrown(ErrColumns, Missing(HeaderLine))
            /\ columnInfo' = columnInfo
       ELSE /\ pc' = "parse"
            /\ error' = error
            /\ columnInfo' = EnsureRequiredColumns(HeaderLine)
  /\ UNCHANGED <<inputCsv, records, engineVars, outputCsv, outputFile>>

\* as Parse, the lines that throw left out of the records
ParseSkippingBadLines ==
  /\ pc = "parse"
  /\ pc' = "engine"
  /\ error' = error
  /\ records' = ParseRecords(SelectSeq(DataLines,
                    LAMBDA line : LineError(line, columnInfo) = NoError),
                  columnInfo)
  /\ UNCHANGED <<inputCsv, columnInfo, engineVars, outputCsv, outputFile>>

\* const records = parseRecords(dataLines, columnInfo)
Parse ==
  /\ pc = "parse"
  /\ IF ParseError(DataLines, columnInfo) # NoError
       THEN /\ pc' = "failed"
            /\ error' = ParseError(DataLines, columnInfo)
            /\ records' = records
       ELSE /\ pc' = "engine"
            /\ error' = error
            /\ records' = ParseRecords(DataLines, columnInfo)
  /\ UNCHANGED <<inputCsv, columnInfo, engineVars, outputCsv, outputFile>>

\* as Enter, the position table made once and kept from call to call
EnterKeepingPositions ==
  /\ pc = "engine"
  /\ positions' = positions
  /\ profitLossByIndex' = Blanks(Len(records))
  /\ sorted' = SortRecords(records, columnInfo)
  /\ idx' = 0
  /\ pc' = "loop"
  /\ UNCHANGED <<inputCsv, columnInfo, records, record, returned, outputCsv,
                 outputFile, error, tally, runs>>

\* entry of calculateProfitLossForRecords, up to the call of sortRecords
Enter ==
  /\ pc = "engine"
  /\ positions' = <<>>
  /\ profitLossByIndex' = Blanks(Len(records))
  /\ sorted' = SortRecords(records, columnInfo)
  /\ idx' = 0
  /\ pc' = "loop"
  /\ UNCHANGED <<inputCsv, columnInfo, records, record, returned, outputCsv,
                 outputFile, error, tally, runs>>

\* one iteration of the loop over the sorted records
Step ==
  /\ pc = "loop"
  /\ idx < Len(sorted)
  /\ Iterate(sorted[idx + 1])
  /\ UNCHANGED <<inputCsv, columnInfo, records, sorted, returned, outputCsv,
                 outputFile, runs>>

BuildOutput ==
  /\ pc = "returned"
  /\ outputCsv' = Value(BuildOutputCsv(HeaderLine, records, returned.value))
  /\ pc' = "built"
  /\ UNCHANGED <<inputCsv, columnInfo, records, engineVars, outputFile, error>>

WriteFile ==
  /\ pc = "built"
  /\ outputFile' = outputCsv
  /\ pc' = "done"
  /\ UNCHANGED <<inputCsv, columnInfo, records, engineVars, outputCsv, error>>

----------------------------------------------------------------------------
(* Ledgers *)

MaxLedger == 3

HeaderWithConfirmation ==
  <<"AsxCode", "Confirmation Number", "Order Type", "Trade Date", "Avg Price",
    "Quantity">>

\* the line of a header's layout that holds text f[name] under each name
Row(header, f) == [k \in 1..Len(header) |-> f[header[k]]]

Cells(code, confirmation, orderType, tradeDate, avgPrice, quantity) ==
  [name \in {"AsxCode", "Confirmation Number", "Order Type", "Trade Date",
             "Avg Price", "Quantity"} |->
     CASE name = "AsxCode" -> code
       [] name = "Confirmation Number" -> confirmation
       [] name = "Order Type" -> orderType
       [] name = "Trade Date" -> tradeDate
       [] name = "Avg Price" -> avgPrice
       [] name = "Quantity" -> quantity]

\* the state in which calculateProfitLossForRecords is called on the
\* records of a header line and data lines
CalledOn(header, lines) ==
  /\ pc = "engine"
  /\ inputCsv = <<header>> \o lines
  /\ columnInfo = EnsureRequiredColumns(header)
  /\ records = ParseRecords(lines, EnsureRequiredColumns(header))
  /\ sorted = <<>>
  /\ idx = 0
  /\ record = NoRecord
  /\ positions = <<>>
  /\ profitLossByIndex = <<>>
  /\ returned = Nothing
  /\ outputCsv = Nothing
  /\ outputFile = Nothing
  /\ error = NoError
  /\ tally = <<>>
  /\ runs = <<>>

NextEngine == Enter \/ Step \/ Return

\* Ledgers of trades of one instrument, with dates and confirmation numbers
\* that tie
TradeRows(header) ==
  {Row(header, Cells("AAA", n, t, d, p, "1")) :
     n \in {"10", "2"}, t \in {"Buy", "SELL"},
     d \in {"2024-01-01", "2024-01-02"}, p \in {"1", "2"}}

InitTrades ==
  \E header \in {HeaderWithConfirmation, Required} :
    \E n \in 1..MaxLedger :
      \E lines \in [1..n -> TradeRows(header)] : CalledOn(header, lines)

SpecTrades == InitTrades /\ [][NextEngine]_vars

\* Ledgers of two instruments with rows that carry no instrument code and
\* rows that are neither Buy nor Sell; the price follows the date
MixedCodes == {"", "AAA", "BBB"}

MixedRows ==
  {Row(Required, Cells(c, "", t, d[1], d[2], "1")) :
     c \in MixedCodes, t \in OrderTypes,
     d \in {<<"2024-01-01", "1">>, <<"2024-01-02", "2">>}}

InitMixed ==
  \E n \in 1..MaxLedger :
    \E lines \in [1..n -> MixedRows] : CalledOn(Required, lines)

SpecMixed == InitMixed /\ [][NextEngine]_vars

\* Ledgers of one instrument whose rows differ in date and in quantity (0 or
\* 1); a Buy is at price 1 and a Sell at price 2
DatedRows ==
  {Row(Required, Cells("AAA", "", tp[1], d, tp[2], q)) :
     tp \in {<<"Buy", "1">>, <<"SELL", "2">>},
     d \in {"2024-01-01", "2024-01-02"}, q \in {"0", "1"}}

InitDated ==
  \E n \in 1..MaxLedger :
    \E lines \in [1..n -> DatedRows] : CalledOn(Required, lines)

SpecDated == InitDated /\ [][NextEngine]_vars

\* The engine called again on the records it was called on
MaxCalls == 2

Outcome == [error |-> error, returned |-> returned]

\* the caller, after a call has returned or thrown, calls again with the same
\* arguments; the locals of the call that ended are out of reach
CallAgain ==
  /\ pc \in {"returned", "failed"}
  /\ Len(runs) < MaxCalls - 1
  /\ runs' = Append(runs, Outcome)
  /\ pc' = "engine"
  /\ error' = NoError
  /\ returned' = Nothing
  /\ record' = NoRecord
  /\ tally' = <<>>
  /\ idx' = 0
  /\ UNCHANGED <<inputCsv, columnInfo, records, sorted, positions,
                 profitLossByIndex, outputCsv, outputFile>>

NextAgain == Enter \/ Step \/ Return \/ CallAgain

SpecAgain == InitDated /\ [][NextAgain]_vars

\* Header lines: the column names, each at most once, in any order, some of
\* them left out, before one data line
MaxColumns == 6

ColumnNames ==
  {"AsxCode", "Order Type", "Trade Date", "Avg Price", "Quantity",
   "Confirmation Number", "Reverse Confirmation Number"}

\* the lines of n of the names, no name twice
RECURSIVE HeadersOf(_)
HeadersOf(n) ==
  IF n = 0 THEN {<<>>}
  ELSE {line \in {Append(h, name) : h \in HeadersOf(n - 1), name \in ColumnNames} :
          \A i \in 1..(n - 1) : line[i] # line[n]}

Headers == UNION {HeadersOf(n) : n \in 1..MaxColumns}

\* calculateProfitLossCsv has split the text into a header line and a data line
InitColumns ==
  /\ pc = "columns"
  /\ \E header \in Headers : inputCsv = <<header, <<"AAA">>>>
  /\ columnInfo = NoColumns
  /\ records = <<>>
  /\ sorted = <<>>
  /\ idx = 0
  /\ record = NoRecord
  /\ positions = <<>>
  /\ profitLossByIndex = <<>>
  /\ returned = Nothing
  /\ outputCsv = Nothing
  /\ outputFile = Nothing
  /\ error = NoError
  /\ tally = <<>>
  /\ runs = <<>>

SpecColumns == InitColumns /\ [][EnsureColumns]_vars

\* Ledgers of one instrument and one date, consumed in input order: Buys of
\* positive, zero and negative quantity and of zero price, Sells of 1 and 2
MaxHistory == 4

HistoryRows ==
  {Row(Required, Cells("AAA", "", tpq[1], "2024-01-01", tpq[2], tpq[3])) :
     tpq \in {<<"Buy", "1", "1">>, <<"Buy", "1", "2">>, <<"Buy", "0", "1">>,
              <<"Buy", "1", "-1">>, <<"SELL", "2", "1">>, <<"SELL", "2", "2">>}}

InitHistory ==
  \E n \in 1..MaxHistory :
    \E lines \in [1..n -> HistoryRows] : CalledOn(Required, lines)

SpecHistory == InitHistory /\ [][NextEngine]_vars

\* Ledgers of one instrument and one date with Sells that leave a part of the
\* position, one of them a part of 0.0000005
PartialRows ==
  {Row(Required, Cells("AAA", "", tpq[1], "2024-01-01", tpq[2], tpq[3])) :
     tpq \in {<<"Buy", "1", "1">>, <<"Buy", "2", "2">>,
              <<"SELL", "2", "1">>, <<"SELL", "2", "0.9999995">>}}

\* no Buy comes after a Sell of 0.9999995: the fractions that a Buy would
\* bring then need integers beyond 2^31
InitPartial ==
  \E n \in 1..MaxHistory :
    \E lines \in [1..n -> PartialRows] :
      /\ \A i, j \in 1..n :
           (i < j /\ lines[i][5] = "0.9999995") => lines[j][2] # "Buy"
      /\ CalledOn(Required, lines)

SpecPartial == InitPartial /\ [][NextEngine]_vars

\* Ledgers of one instrument and one date for the two engines: the rows of
\* HistoryRows and Sells of quantity zero and negative
LegacyRows ==
  HistoryRows \cup
  {Row(Required, Cells("AAA", "", "SELL", "2024-01-01", "2", q)) :
     q \in {"0", "-1"}}

InitLegacy ==
  \E n \in 1..MaxHistory :
    \E lines \in [1..n -> LegacyRows] : CalledOn(Required, lines)

SpecLegacy == InitLegacy /\ [][NextEngine]_vars

\* Input texts: no line, blank lines, a header alone, a header that lacks a
\* required column, data lines with a date or a number that does not parse,
\* blank lines among the others, whitespace at the end of a line
BlankLine == <<" ">>

HeaderWithoutQuantity == <<"AsxCode", "Order Type", "Trade Date", "Avg Price">>

CsvRows ==
  {Row(Required, Cells("AAA", "", t, d[1], d[2], q)) :
     t \in {"Buy", "SELL"},
     d \in {<<"2024-01-01", "1">>, <<"2024-01-02", "2">>},
     q \in {"1", "1 "}}
  \cup {Row(Required, Cells("AAA", "", "Buy", "not-a-date", "1", "1")),
        Row(Required, Cells("AAA", "", "Buy", "2024-01-01", "1", "x")),
        Row(Required, Cells("AAA", "", "SELL", "2024-01-02", "x", "1"))}

\* the input texts whose data lines are lines
CsvInputs(lines) ==
  IF lines = <<>>
    THEN {<<>>, <<BlankLine>>, <<BlankLine, BlankLine>>, <<Required>>,
          <<Required, BlankLine>>, <<BlankLine, HeaderWithoutQuantity>>}
    ELSE {<<Required>> \o lines,
          <<BlankLine, Required, BlankLine>> \o lines \o <<BlankLine>>}
         \cup (IF Len(lines) = 1 THEN {<<HeaderWithoutQuantity>> \o lines}
                ELSE {})

\* runFileCalculation has read the input file
InitCsv ==
  /\ pc = "start"
  /\ \E n \in 0..MaxLedger :
       \E lines \in [1..n -> CsvRows] : inputCsv \in CsvInputs(lines)
  /\ columnInfo = NoColumns
  /\ records = <<>>
  /\ sorted = <<>>
  /\ idx = 0
  /\ record = NoRecord
  /\ positions = <<>>
  /\ profitLossByIndex = <<>>
  /\ returned = Nothing
  /\ outputCsv = Nothing
  /\ outputFile = Nothing
  /\ error = NoError
  /\ tally = <<>>
  /\ runs = <<>>

NextCsv ==
  \/ CheckInput \/ EnsureColumns \/ Parse
  \/ Enter \/ Step \/ Return
  \/ BuildOutput \/ WriteFile

SpecCsv == InitCsv /\ [][NextCsv]_vars

----------------------------------------------------------------------------
(* Properties of the engine *)

Instruments == Codes \ {""}

\* the record consumed last is a Sell of instrument c
LastSell(c) == idx > 0 /\ record.asxCode = c /\ IsSell(record.orderType)

ResultOf(rec) == profitLossByIndex[rec.originalIndex + 1]

Held(pos, c) == IF c \in DOMAIN pos THEN pos[c] ELSE NewPosition

\* the record consumed last is the first Sell of c, only Buys of c came
\* before it (at least one), and it sells all that they bought
FullSellAfterBuys(c) ==
  /\ LastSell(c)
  /\ TallyOf(tally, c).sells = 1
  /\ TallyOf(tally, c).buys >= 1
  /\ record.quantity = TallyOf(tally, c).buyQuantity

WeightedAverageBuyPrice(c) ==
  RDiv(TallyOf(tally, c).buyCost, TallyOf(tally, c).buyQuantity)

FullSellValue(c) ==
  ToFixed2(RMul(RSub(record.avgPrice, WeightedAverageBuyPrice(c)),
                record.quantity))

\* C1 as stated: after one or more Buys of an instrument, a Sell of the whole
\* quantity bought records (sellPrice - weightedAverageBuyPrice) *
\* sellQuantity, rounded to 2 decimals.  (Read with a positive quantity
\* bought, without which there is no weighted average.)
C1_AsStated ==
  \A c \in Instruments :
    (FullSellAfterBuys(c) /\ RLt(Zero, TallyOf(tally, c).buyQuantity))
      => (error = NoError /\ ResultOf(record) = FullSellValue(c))

\* C1 amended: the same, for Buys whose total quantity and total cost are
\* both positive.
C1_FullSell ==
  \A c \in Instruments :
    (/\ FullSellAfterBuys(c)
     /\ RLt(Zero, TallyOf(tally, c).buyQuantity)
     /\ RLt(Zero, TallyOf(tally, c).buyCost))
      => (error = NoError /\ ResultOf(record) = FullSellValue(c))

\* two Buys at different prices, then a Sell of all of it at a profit
C1_Witness ==
  \E c \in Instruments :
    /\ FullSellAfterBuys(c)
    /\ TallyOf(tally, c).buys = 2
    /\ RLt(Zero, TallyOf(tally, c).buyCost)
    /\ WeightedAverageBuyPrice(c)[2] # 1
    /\ error = NoError
    /\ ResultOf(record) = FullSellValue(c)
    /\ ResultOf(record).hundredths > 0

\* C2 as stated: a Sell of an instrument that has had no Buy fails with
\* 'Sell encountered without existing position', whatever its quantity.
C2_AsStated ==
  \A c \in Instruments :
    (LastSell(c) /\ TallyOf(tally, c).buys = 0)
      => error = Thrown(ErrNoPosition, <<c>>)

\* C2 amended: a Sell of positive quantity of an instrument that has had no
\* Buy fails with 'Sell encountered without existing position'.
C2_NoPosition ==
  \A c \in Instruments :
    (LastSell(c) /\ TallyOf(tally, c).buys = 0 /\ RLt(Zero, record.quantity))
      => (pc = "failed" /\ error = Thrown(ErrNoPosition, <<c>>))

C2_Witness ==
  \E c \in Instruments :
    /\ LastSell(c)
    /\ TallyOf(tally, c).buys = 0
    /\ RLt(Zero, record.quantity)
    /\ error = Thrown(ErrNoPosition, <<c>>)

\* the iteration being taken consumes a Sell of more than is held
Overselling ==
  /\ pc = "loop"
  /\ idx' = idx + 1
  /\ record'.asxCode # ""
  /\ IsSell(record'.orderType)
  /\ GreaterThanInv(RSub(record'.quantity,
                         Held(positions, record'.asxCode).quantity),
                    QuantityEpsilonInv)

\* C3 as stated: in every position state, a Sell of more than the held
\* quantity (beyond 1e-8) fails with 'Sell quantity exceeds position'.
C3_AsStated ==
  [][Overselling => error' = Thrown(ErrOversold, <<record'.asxCode>>)]_vars

\* C3 amended: the same, where the held quantity and the total cost of the
\* position are both positive.
C3_Oversold ==
  [][(/\ Overselling
      /\ RLt(Zero, Held(positions, record'.asxCode).quantity)
      /\ RLt(Zero, Held(positions, record'.asxCode).totalCost))
       => (pc' = "failed" /\ error' = Thrown(ErrOversold, <<record'.asxCode>>))]_vars

C3_Witness ==
  \E c \in Instruments :
    /\ LastSell(c)
    /\ error = Thrown(ErrOversold, <<c>>)
    /\ RLt(Zero, Held(positions, c).quantity)
    /\ RLt(Held(positions, c).quantity, record.quantity)

\* C10: a Sell with an instrument code and a quantity <= 0 fails with
\* 'Sell quantity must be positive', whatever the position of the instrument.
C10_NonPositive ==
  \A c \in Instruments :
    (LastSell(c) /\ RLe(record.quantity, Zero))
      => (pc = "failed" /\ error = Thrown(ErrNonPositive, <<c>>))

\* once with a position held, once with no Buy before
C10_Witness ==
  \E c \in Instruments :
    /\ LastSell(c)
    /\ RLe(record.quantity, Zero)
    /\ error = Thrown(ErrNonPositive, <<c>>)
    /\ TallyOf(tally, c).buys = 0

----------------------------------------------------------------------------
(* Properties of the order of processing *)

Confirmation(rec) == Field(rec.cols, columnInfo.confirmationIdx)

SameDate(a, b) == a.tradeDate = b.tradeDate

\* a comes before b by (tradeDate, confirmation text, originalIndex)
KeyBefore(a, b) ==
  \/ RLt(a.tradeDate, b.tradeDate)
  \/ /\ SameDate(a, b)
     /\ columnInfo.confirmationIdx # -1
     /\ Collation(Confirmation(a)) < Collation(Confirmation(b))
  \/ /\ SameDate(a, b)
     /\ columnInfo.confirmationIdx = -1 \/ Confirmation(a) = Confirmation(b)
     /\ a.originalIndex < b.originalIndex

\* C9: sortRecords returns the records by tradeDate ascending, then (if the
\* column exists) by confirmation text ascending, then by originalIndex
\* ascending: the order is strict and total.
C9_Sorted ==
  pc # "engine" =>
    /\ Len(sorted) = Len(records)
    /\ \A k \in 1..Len(records) : \E i \in 1..Len(sorted) : sorted[i] = records[k]
    /\ \A i, j \in 1..Len(sorted) : i < j => KeyBefore(sorted[i], sorted[j])

\* three records of one date: two ordered by their confirmation texts against
\* the input order, two of one confirmation text left in input order
C9_Witness ==
  /\ pc = "loop"
  /\ Len(sorted) = 3
  /\ \A i, j \in 1..3 : SameDate(sorted[i], sorted[j])
  /\ \E i, j \in 1..3 :
       /\ i < j
       /\ Confirmation(sorted[i]) = "10"
       /\ Confirmation(sorted[j]) = "2"
       /\ sorted[i].originalIndex > sorted[j].originalIndex
  /\ \E i, j \in 1..3 :
       /\ i < j
       /\ columnInfo.confirmationIdx # -1
       /\ Confirmation(sorted[i]) = Confirmation(sorted[j])

Finished == pc \in {"returned", "failed"}

RowOrders(n) ==
  {f \in [1..n -> 1..n] : \A i, j \in 1..n : f[i] = f[j] => i = j}

\* the records of the ledger whose k-th data line is line perm[k]
Reordered(perm) ==
  [k \in 1..Len(records) |-> [records[perm[k]] EXCEPT !.originalIndex = k - 1]]

\* the run on the reordered ledger gives each row what this run gave it
SameOutcome(perm) ==
  LET other == CalculateProfitLossForRecords(Reordered(perm), columnInfo) IN
  /\ other.error = error
  /\ error = NoError =>
       \A k \in 1..Len(records) :
         other.profitLossByIndex[k] = profitLossByIndex[perm[k]]

\* no two records agree on trade date and confirmation text
DistinctKeys ==
  \A i, j \in 1..Len(records) :
    i # j =>
      \/ ~SameDate(records[i], records[j])
      \/ /\ columnInfo.confirmationIdx # -1
         /\ LocaleCompare(Confirmation(records[i]), Confirmation(records[j])) # 0

\* C4 as stated: for every ledger and every permutation of its rows, each
\* row receives the same result as in the unpermuted ledger.
C4_AsStated ==
  Finished => \A perm \in RowOrders(Len(records)) : SameOutcome(perm)

\* C4 amended: the same, for ledgers in which no two rows agree on both
\* trade date and tie-break text (on trade date, without the column).
C4_Reordering ==
  (Finished /\ DistinctKeys) =>
    \A perm \in RowOrders(Len(records)) : SameOutcome(perm)

\* a ledger of three rows of distinct keys, given out of chronological
\* order, two of them told apart by the confirmation text alone, with a
\* profit recorded
C4_Witness ==
  /\ pc = "returned"
  /\ DistinctKeys
  /\ Len(records) = 3
  /\ sorted # records
  /\ \E i, j \in 1..3 : i # j /\ SameDate(records[i], records[j])
  /\ \E k \in 1..3 : profitLossByIndex[k].hundredths > 0

----------------------------------------------------------------------------
(* Properties of the rows that are not trades *)

Started == pc \in {"loop", "returned", "failed"}

\* a row without instrument code, or neither Buy nor Sell
Inert(rec) ==
  rec.asxCode = "" \/ LowerCase(rec.orderType) \notin {"buy", "sell"}

Renumbered(seq) ==
  [k \in 1..Len(seq) |-> [seq[k] EXCEPT !.originalIndex = k - 1]]

\* the records of the ledger without its inert rows
Remaining == Renumbered(SelectSeq(records, LAMBDA r : ~Inert(r)))

\* the place in the ledger of the k-th row that remains
PlaceOf(k) ==
  CHOOSE i \in 1..Len(records) :
    /\ ~Inert(records[i])
    /\ Cardinality({j \in 1..i : ~Inert(records[j])}) = k

\* the run on the remaining rows, as far as this run has come
ReducedRun ==
  RunLoop(SubSeq(SortRecords(Remaining, columnInfo), 1,
                 Cardinality({i \in 1..idx : ~Inert(sorted[i])})),
          [positions |-> <<>>,
           profitLossByIndex |-> Blanks(Len(Remaining)),
           error |-> NoError])

\* C5: rows with an empty instrument code or an order kind other than
\* Buy/Sell never receive a result, and removing them leaves the held
\* quantity and total cost of every instrument after every remaining event,
\* the P/L of every Sell row and the success or failure of the run unchanged.
C5_InertRows ==
  Started =>
    /\ \A i \in 1..Len(records) :
         Inert(records[i]) => profitLossByIndex[i] = Blank
    /\ ReducedRun.error = error
    /\ \A c \in MixedCodes \ {""} :
         Held(positions, c) = Held(ReducedRun.positions, c)
    /\ \A k \in 1..Len(Remaining) :
         profitLossByIndex[PlaceOf(k)] = ReducedRun.profitLossByIndex[k]

\* a Buy and a later Sell of AAA with a Dividend row of AAA between them
C5_Witness ==
  /\ pc = "returned"
  /\ Len(sorted) = 3
  /\ LowerCase(sorted[1].orderType) = "buy"
  /\ sorted[2].asxCode = "AAA" /\ sorted[2].orderType = "Dividend"
  /\ LowerCase(sorted[3].orderType) = "sell"
  /\ profitLossByIndex[sorted[3].originalIndex + 1].hundredths > 0

\* C8: on a successful run the rows with a non-blank result are exactly the
\* Sell rows with a non-empty instrument code.
C8_SellRows ==
  pc = "returned" =>
    \A k \in 1..Len(records) :
      (returned.value[k] # Blank) <=>
        (LowerCase(records[k].orderType) = "sell" /\ records[k].asxCode # "")

\* a Sell row with a result, a Sell row without instrument code and a Buy row
C8_Witness ==
  /\ pc = "returned"
  /\ \E i, j, k \in 1..Len(records) :
       /\ LowerCase(records[i].orderType) = "sell"
       /\ records[i].asxCode # ""
       /\ returned.value[i] # Blank
       /\ LowerCase(records[j].orderType) = "sell"
       /\ records[j].asxCode = ""
       /\ returned.value[j] = Blank
       /\ LowerCase(records[k].orderType) = "buy"
       /\ returned.value[k] = Blank

----------------------------------------------------------------------------
(* Properties of the whole run *)

\* C6: no failed run produces output: once any step has thrown, the engine
\* has returned no results, calculateProfitLossCsv no text, and no output
\* file is written.
C6_NoOutputOnFailure ==
  error # NoError =>
    /\ pc = "failed"
    /\ returned = Nothing
    /\ outputCsv = Nothing
    /\ outputFile = Nothing

\* a Sell fails after the P/L of an earlier Sell was computed
C6_Witness ==
  /\ pc = "failed"
  /\ error.message = ErrNoPosition
  /\ \E k \in 1..Len(profitLossByIndex) : profitLossByIndex[k] # Blank
  /\ returned = Nothing /\ outputCsv = Nothing /\ outputFile = Nothing

\* the lines of the input that are not blank, as they stand in the input
InputLines == SelectSeq(inputCsv, LAMBDA line : ~IsBlankLine(line))

\* C7: the output has the header line and one line per data row, in input
\* order, and output line i is input line i, unchanged, followed by one
\* field (ProfitLoss for the header).
C7_AsStated ==
  pc = "done" =>
    /\ Len(outputFile.value) = Len(InputLines)
    /\ outputFile.value[1] = Append(InputLines[1], "ProfitLoss")
    /\ \A i \in 2..Len(InputLines) :
         /\ Len(outputFile.value[i]) = Len(InputLines[i]) + 1
         /\ SubSeq(outputFile.value[i], 1, Len(InputLines[i])) = InputLines[i]
         /\ outputFile.value[i][Len(InputLines[i]) + 1] =
              returned.value[i - 1]

----------------------------------------------------------------------------
(* Properties of repeated calls *)

\* C11: a call of the engine starts from an empty position table, and every
\* call on the same records ends as the earlier calls on them ended: with an
\* equal result mapping or with the same failure.
C11_SameAgain ==
  /\ (pc = "loop" /\ idx = 0) => positions = <<>>
  /\ Finished => \A i \in 1..Len(runs) : runs[i] = Outcome

\* a second call has returned a profit on records whose first call left a
\* quantity held
C11_Witness ==
  /\ pc = "returned"
  /\ Len(runs) = 1
  /\ RLt(Zero, Held(positions, "AAA").quantity)
  /\ \E k \in 1..Len(records) : returned.value[k] # Blank

----------------------------------------------------------------------------
(* Properties of the stages before the engine *)

RequiredNames == {Required[i] : i \in 1..Len(Required)}

\* the names of a set that the header of the input does not hold
AbsentOf(names) ==
  {name \in names : \A i \in 1..Len(inputCsv[1]) : inputCsv[1][i] # name}

\* the column of the header that an index of columnInfo points at
ColumnAt(i) == IF i >= 0 /\ i < Len(inputCsv[1]) THEN inputCsv[1][i + 1] ELSE ""

\* C12: ensureRequiredColumns fails with "Missing required columns" exactly
\* when a required name is absent from the header, whatever the order of the
\* columns; the error names every absent required name, once; and without the
\* Confirmation Number column it succeeds with confirmationIdx = -1.
C12_Columns ==
  pc # "columns" =>
    /\ (error.message = ErrColumns) <=> (AbsentOf(RequiredNames) # {})
    /\ AbsentOf(RequiredNames) # {} =>
         /\ pc = "failed"
         /\ {error.detail[i] : i \in 1..Len(error.detail)} = AbsentOf(RequiredNames)
         /\ Len(error.detail) = Cardinality(AbsentOf(RequiredNames))
    /\ AbsentOf(RequiredNames) = {} =>
         /\ pc = "parse"
         /\ error = NoError
         /\ ColumnAt(columnInfo.asxIdx) = "AsxCode"
         /\ ColumnAt(columnInfo.orderTypeIdx) = "Order Type"
         /\ ColumnAt(columnInfo.tradeDateIdx) = "Trade Date"
         /\ ColumnAt(columnInfo.avgPriceIdx) = "Avg Price"
         /\ ColumnAt(columnInfo.qtyIdx) = "Quantity"
         /\ IF AbsentOf({"Confirmation Number"}) # {}
              THEN columnInfo.confirmationIdx = -1
              ELSE ColumnAt(columnInfo.confirmationIdx) = "Confirmation Number"

\* a header that starts with Quantity and holds Confirmation Number, without
\* two of the required names, both named by the error
C12_Witness ==
  /\ pc = "failed"
  /\ inputCsv[1][1] = "Quantity"
  /\ AbsentOf({"Confirmation Number"}) = {}
  /\ error.message = ErrColumns
  /\ Len(error.detail) = 2

\* the number of lines of the input that hold more than whitespace
NonBlankLines ==
  Cardinality({i \in 1..Len(inputCsv) :
                 ~(Len(inputCsv[i]) = 1 /\ inputCsv[i][1] \in {"", " "})})

NoOutput == returned = Nothing /\ outputCsv = Nothing /\ outputFile = Nothing

\* C13: calculateProfitLossCsv fails with "Input CSV is empty" when the input
\* has no non-blank line, and with "Input CSV has no data rows" when it has a
\* header line and no non-blank data line; neither case produces output.
C13_EmptyOrHeaderOnly ==
  pc # "start" =>
    /\ NonBlankLines = 0 =>
         pc = "failed" /\ error.message = ErrEmpty /\ NoOutput
    /\ NonBlankLines = 1 =>
         pc = "failed" /\ error.message = ErrNoRows /\ NoOutput
    /\ NonBlankLines > 1 => error.message \notin {ErrEmpty, ErrNoRows}

\* a header line followed by a blank line has been refused
C13_Witness ==
  /\ pc = "failed"
  /\ Len(inputCsv) = 2
  /\ NonBlankLines = 1
  /\ error.message = ErrNoRows
  /\ NoOutput

----------------------------------------------------------------------------
(* Properties of the positions *)

\* the loop has consumed a Sell of an instrument without throwing
SoldNow ==
  /\ pc = "loop"
  /\ idx' = idx + 1
  /\ error' = NoError
  /\ record'.asxCode # ""
  /\ LowerCase(record'.orderType) = "sell"

\* C14: every successful Sell, full or partial, records
\* unitPrice * quantity - (totalCostBasis / heldQuantity) * quantity rounded
\* to 2 decimals, on the Position as it stood just before this Sell.
C14_SellValue ==
  [][SoldNow =>
       profitLossByIndex'[record'.originalIndex + 1] =
         ToFixed2(RSub(RMul(record'.avgPrice, record'.quantity),
                       RMul(RDiv(Held(positions, record'.asxCode).totalCost,
                                 Held(positions, record'.asxCode).quantity),
                            record'.quantity)))]_vars

\* Buy 1 @ 1, Buy 2 @ 2, then a partial Sell of 1 @ 2: 2 - 5/3 gives 0.33
C14_Witness ==
  /\ pc = "loop"
  /\ error = NoError
  /\ record.asxCode = "AAA"
  /\ LowerCase(record.orderType) = "sell"
  /\ TallyOf(tally, "AAA").buys = 2
  /\ TallyOf(tally, "AAA").sells = 1
  /\ Held(positions, "AAA").quantity = Num(2)
  /\ profitLossByIndex[record.originalIndex + 1] =
       [blank |-> FALSE, negative |-> FALSE, hundredths |-> 33]

\* C15: in every state of a run every Position has heldQuantity >= 0 and
\* totalCostBasis >= 0.
C15_AsStated ==
  \A c \in DOMAIN positions :
    /\ RLe(Zero, positions[c].quantity)
    /\ RLe(Zero, positions[c].totalCost)

----------------------------------------------------------------------------
(* Properties of the chronological pass *)

IsBuyRow(k) == records[k].asxCode # "" /\ LowerCase(records[k].orderType) = "buy"
IsSellRow(k) == records[k].asxCode # "" /\ LowerCase(records[k].orderType) = "sell"

Rows == 1..Len(records)

\* some Sell row is dated before every Buy row of the ledger (the ledgers
\* here hold one instrument), a Buy row standing before it in the input
EarlySell ==
  \E k \in Rows :
    /\ IsSellRow(k)
    /\ \E j \in Rows : IsBuyRow(j) /\ j < k
    /\ \A j \in Rows :
         IsBuyRow(j) => RLt(records[k].tradeDate, records[j].tradeDate)

\* the Sell row that comes first by trade date, then by place in the input
FirstSell ==
  CHOOSE k \in Rows :
    /\ IsSellRow(k)
    /\ \A j \in Rows :
         IsSellRow(j) =>
           \/ RLt(records[k].tradeDate, records[j].tradeDate)
           \/ records[k].tradeDate = records[j].tradeDate /\ k <= j

\* the ledger is a Sell row followed in the input by a Buy row of the same
\* positive quantity and of an earlier trade date
LateSell ==
  /\ Len(records) = 2
  /\ IsSellRow(1) /\ IsBuyRow(2)
  /\ RLt(records[2].tradeDate, records[1].tradeDate)
  /\ RLt(Zero, records[2].quantity)
  /\ records[1].quantity = records[2].quantity

LateSellSucceeds ==
  (Finished /\ LateSell) =>
    /\ pc = "returned"
    /\ returned.value[1] =
         ToFixed2(RMul(RSub(records[1].avgPrice, records[2].avgPrice),
                       records[1].quantity))
    /\ returned.value[2] = Blank

\* C16 as stated: a Sell dated before every Buy of its instrument fails with
\* "Sell encountered without existing position" even when the Buy row comes
\* first in the input, and a Sell dated after its Buy succeeds even when the
\* Sell row comes first in the input.
C16_AsStated ==
  /\ (Finished /\ EarlySell) => (pc = "failed" /\ error.message = ErrNoPosition)
  /\ LateSellSucceeds

\* C16 amended: with a Sell dated before every Buy the run fails at the
\* chronologically first Sell, with "Sell encountered without existing
\* position" if the quantity of that Sell is positive and with "Sell quantity
\* must be positive" if it is not; the second part as stated.
C16_Chronological ==
  /\ (Finished /\ EarlySell) =>
       /\ pc = "failed"
       /\ error.message =
            IF RLt(Zero, records[FirstSell].quantity)
              THEN ErrNoPosition ELSE ErrNonPositive
  /\ LateSellSucceeds

\* a Buy row followed in the input by a Sell row of an earlier date: the run
\* has failed on the Sell
C16_Witness ==
  /\ pc = "failed"
  /\ Len(records) = 2
  /\ IsBuyRow(1) /\ IsSellRow(2)
  /\ RLt(records[2].tradeDate, records[1].tradeDate)
  /\ RLt(Zero, records[2].quantity)
  /\ error.message = ErrNoPosition
  /\ idx = 1

----------------------------------------------------------------------------
(* Properties of the instruments taken one by one *)

\* the records of instrument c, as a ledger of their own
RowsOf(c) == Renumbered(SelectSeq(records, LAMBDA r : r.asxCode = c))

\* the place in the ledger of the k-th row of instrument c
PlaceIn(c, k) ==
  CHOOSE i \in Rows :
    /\ records[i].asxCode = c
    /\ Cardinality({j \in 1..i : records[j].asxCode = c}) = k

\* the run on the rows of c alone, to its end
RestrictedRun(c) == CalculateProfitLossForRecords(RowsOf(c), columnInfo)

\* the run on the rows of c alone, as far as this run has come
RestrictedSoFar(c) ==
  RunLoop(SubSeq(SortRecords(RowsOf(c), columnInfo), 1,
                 Cardinality({i \in 1..idx : sorted[i].asxCode = c})),
          [positions |-> <<>>,
           profitLossByIndex |-> Blanks(Len(RowsOf(c))),
           error |-> NoError])

\* a step on a record of one instrument leaves the Position of every other
\* instrument as it was
OthersUntouched ==
  \A c \in MixedCodes \ {""} :
    (pc = "loop" /\ idx' = idx + 1 /\ record'.asxCode # c) =>
      Held(positions', c) = Held(positions, c)

\* C17 as stated: a record of one instrument leaves the Positions of the
\* others unchanged, and the P/L values and the failure of an instrument's
\* Sells are those of the run on the rows of that instrument alone.
C17_AsStated ==
  /\ [][OthersUntouched]_vars
  /\ [](Finished =>
          \A c \in {records[k].asxCode : k \in {k \in Rows : IsSellRow(k)}} :
            IF RestrictedRun(c).error = NoError
              THEN /\ pc = "returned"
                   /\ \A k \in 1..Len(RowsOf(c)) :
                        returned.value[PlaceIn(c, k)] =
                          RestrictedRun(c).profitLossByIndex[k]
              ELSE pc = "failed" /\ error = RestrictedRun(c).error)

\* C17 amended: the same, as far as the run goes: after every step the
\* Position of each instrument, the P/L of its rows and its failure are those
\* of the run on its rows alone after the rows of it consumed so far; the
\* failure of one instrument ends the run for all of them.
C17_Independent ==
  /\ [][OthersUntouched]_vars
  /\ [](Started =>
          \A c \in MixedCodes \ {""} :
            /\ Held(positions, c) = Held(RestrictedSoFar(c).positions, c)
            /\ \A k \in 1..Len(RowsOf(c)) :
                 profitLossByIndex[PlaceIn(c, k)] =
                   RestrictedSoFar(c).profitLossByIndex[k]
            /\ (RestrictedSoFar(c).error # NoError) <=>
                 (error # NoError /\ record.asxCode = c)
            /\ RestrictedSoFar(c).error # NoError =>
                 error = RestrictedSoFar(c).error)

\* a Buy of AAA, a Buy of BBB, then a Sell of AAA with its result, BBB held
C17_Witness ==
  /\ pc = "returned"
  /\ Len(sorted) = 3
  /\ sorted[1].asxCode = "AAA" /\ LowerCase(sorted[1].orderType) = "buy"
  /\ sorted[2].asxCode = "BBB" /\ LowerCase(sorted[2].orderType) = "buy"
  /\ sorted[3].asxCode = "AAA" /\ LowerCase(sorted[3].orderType) = "sell"
  /\ returned.value[sorted[3].originalIndex + 1] # Blank
  /\ Held(positions, "BBB").quantity = Num(1)

----------------------------------------------------------------------------
(* Properties of the mutations of a Position *)

IsTrade(rec) ==
  rec.asxCode # "" /\ LowerCase(rec.orderType) \in {"buy", "sell"}

\* the Buys and Sells of instrument c among the first n sorted records
TradesOf(c, n) ==
  SelectSeq(SubSeq(sorted, 1, n), LAMBDA r : r.asxCode = c /\ IsTrade(r))

\* a position after the records of seq, each applied once, in their order
RECURSIVE Applied(_, _)
Applied(seq, position) ==
  IF seq = <<>> THEN position
  ELSE Applied(Tail(seq),
               IF LowerCase(Head(seq).orderType) = "buy"
                 THEN BuyPosition(position, Head(seq))
                 ELSE SellPosition(position, Head(seq)))

\* a step of the loop takes the next record of the sorted sequence and
\* changes at most the Position of its instrument, if it is a Buy or a Sell;
\* the loop returns after the last record only
OneRecordAtATime ==
  pc = "loop" =>
    \/ /\ idx' = idx + 1
       /\ record' = sorted[idx + 1]
       /\ \A c \in MixedCodes \ {""} :
            Held(positions', c) # Held(positions, c) =>
              record'.asxCode = c /\ IsTrade(record')
    \/ /\ pc' = "returned"
       /\ idx = Len(sorted)
       /\ positions' = positions

\* C18: each Position is mutated once per Buy or Sell record of its
\* instrument and by no other record, in the order of the sorted sequence:
\* while nothing has failed, the Position of an instrument is the zero
\* Position after its Buys and Sells among the records consumed, each applied
\* once, in sorted order.
C18_OncePerRecord ==
  /\ [][OneRecordAtATime]_vars
  /\ []((Started /\ error = NoError) =>
          \A c \in MixedCodes \ {""} :
            Held(positions, c) = Applied(TradesOf(c, idx), NewPosition))

\* a run has returned on three rows given out of chronological order, two
\* Buys and a Sell of AAA among them
C18_Witness ==
  /\ pc = "returned"
  /\ idx = 3
  /\ sorted # records
  /\ Len(TradesOf("AAA", 3)) = 3
  /\ LowerCase(sorted[3].orderType) = "sell"
  /\ Held(positions, "AAA").quantity = Num(1)

----------------------------------------------------------------------------
(* Properties of a depleted Position *)

\* the m-th record consumed was a Sell, it did not fail, and its quantity was
\* the quantity held before it
FullSellAt(m) ==
  /\ m \in 1..idx
  /\ sorted[m].asxCode = "AAA"
  /\ LowerCase(sorted[m].orderType) = "sell"
  /\ m < idx \/ error = NoError
  /\ sorted[m].quantity =
       Applied(TradesOf("AAA", m - 1), NewPosition).quantity

\* a Buy of positive quantity and positive cost
GainfulBuy(rec) ==
  /\ LowerCase(rec.orderType) = "buy"
  /\ RLt(Zero, rec.quantity)
  /\ RLt(Zero, RMul(rec.avgPrice, rec.quantity))

\* C19: after a successful Sell of the entire held quantity the Position has
\* quantity 0 and totalCost 0 exactly, and the next Sell of positive quantity
\* fails with "Sell encountered without existing position" unless a Buy of
\* positive quantity and positive cost came in between.
C19_Depleted ==
  /\ FullSellAt(idx) => Held(positions, "AAA") = NewPosition
  /\ \A m \in 1..(idx - 1) :
       ( /\ FullSellAt(m)
         /\ LowerCase(sorted[idx].orderType) = "sell"
         /\ RLt(Zero, sorted[idx].quantity)
         /\ \A j \in (m + 1)..(idx - 1) : ~GainfulBuy(sorted[j]) )
       => (pc = "failed" /\ error.message = ErrNoPosition)

\* Buy 1 @ 1, Sell 1, Buy 1 @ 0, then a Sell of 1 that has failed
C19_Witness ==
  /\ pc = "failed"
  /\ idx = 4
  /\ FullSellAt(2)
  /\ LowerCase(sorted[3].orderType) = "buy"
  /\ sorted[3].quantity = Num(1) /\ sorted[3].avgPrice = Zero
  /\ LowerCase(sorted[4].orderType) = "sell"
  /\ error.message = ErrNoPosition

----------------------------------------------------------------------------
(* Properties of malformed rows *)

\* a data line under the header Required whose date, price or quantity is a
\* text that is neither blank nor a date, respectively a number
BadDate(line) == Len(line) = 5 /\ line[3] = "not-a-date"
BadNumber(line) == Len(line) = 5 /\ (line[4] = "x" \/ line[5] = "x")

MalformedRows ==
  {k \in 2..Len(InputLines) : BadDate(InputLines[k]) \/ BadNumber(InputLines[k])}

FirstMalformed == CHOOSE k \in MalformedRows : \A j \in MalformedRows : k <= j

\* C20: a malformed non-blank date or number in any data row ends the run
\* before the engine starts: no records come out of parseRecords, no Position
\* is made, no P/L is computed for any row, and nothing is output; the error
\* is that of the first malformed row in input order.
C20_MalformedAborts ==
  (InputLines # <<>> /\ InputLines[1] = Required /\ MalformedRows # {}) =>
    /\ pc \in {"start", "columns", "parse", "failed"}
    /\ records = <<>>
    /\ sorted = <<>>
    /\ positions = <<>>
    /\ profitLossByIndex = <<>>
    /\ idx = 0
    /\ NoOutput
    /\ pc = "failed" =>
         error.message =
           IF BadDate(InputLines[FirstMalformed]) THEN ErrDate ELSE ErrNumber

\* a Buy row and a Sell row that parse, then a row whose number does not: the
\* run has failed on the third row
C20_Witness ==
  /\ pc = "failed"
  /\ Len(InputLines) = 4
  /\ InputLines[2][2] = "Buy" /\ InputLines[3][2] = "SELL"
  /\ MalformedRows = {4}
  /\ error.message = ErrNumber
  /\ positions = <<>>

----------------------------------------------------------------------------
(* Properties of the average cost *)

\* the loop has consumed a Sell without throwing and a quantity is left
PartialSellNow ==
  /\ SoldNow
  /\ RLt(Zero, Held(positions', record'.asxCode).quantity)

AverageCostOf(position) == RDiv(position.totalCost, position.quantity)

\* the cost basis a Sell leaves, before the snapping
CostLeft(position, rec) ==
  RSub(position.totalCost, RMul(AverageCostOf(position), rec.quantity))

\* C21 as stated: a successful Sell that leaves a quantity leaves
\* totalCostBasis / heldQuantity as it was before the Sell.
C21_AsStated ==
  [][PartialSellNow =>
       AverageCostOf(Held(positions', record'.asxCode)) =
         AverageCostOf(Held(positions, record'.asxCode))]_vars

\* C21 amended: the same when the cost basis left is 1e-6 or more; a cost
\* basis left below 1e-6 is snapped to 0 and the average cost becomes 0.
C21_AverageKept ==
  [][PartialSellNow =>
       AverageCostOf(Held(positions', record'.asxCode)) =
         IF AbsLessThanInv(CostLeft(Held(positions, record'.asxCode), record'),
                           CostEpsilonInv)
           THEN Zero
           ELSE AverageCostOf(Held(positions, record'.asxCode))]_vars

\* Buy 1 @ 1, Buy 2 @ 2, then a Sell of 1: 2 are left at the average of 5/3
C21_Witness ==
  /\ pc = "loop"
  /\ idx = 3
  /\ error = NoError
  /\ LowerCase(record.orderType) = "sell"
  /\ Held(positions, "AAA").quantity = Num(2)
  /\ AverageCostOf(Held(positions, "AAA")) = Rat(5, 3)

----------------------------------------------------------------------------
(* Properties of the order of the failures *)

\* a required name is absent from the first non-blank line of the input
HeaderLacks ==
  \E i \in 1..Len(Required) :
    \A k \in 1..Len(InputLines[1]) : InputLines[1][k] # Required[i]

\* the data rows of the input as records
ParsedRows ==
  ParseRecords(Tail(InputLines), EnsureRequiredColumns(InputLines[1]))

\* rows in chronological order: by trade date, then by confirmation text,
\* then by place in the input
RECURSIVE ByKey(_)
ByKey(rows) ==
  IF rows = <<>> THEN <<>>
  ELSE LET rest == ByKey(Tail(rows)) IN
       SelectSeq(rest, LAMBDA r : KeyBefore(r, Head(rows)))
         \o <<Head(rows)>> \o
       SelectSeq(rest, LAMBDA r : ~KeyBefore(r, Head(rows)))

\* the Error of the loop run over the first k records of seq
ErrorWithin(seq, k) ==
  RunLoop(SubSeq(seq, 1, k),
          [positions |-> <<>>,
           profitLossByIndex |-> Blanks(Len(seq)),
           error |-> NoError]).error

\* the first record of seq, a sequence that the loop does not run through,
\* at which the loop stops
FirstOffender(seq) ==
  CHOOSE k \in 1..Len(seq) :
    /\ ErrorWithin(seq, k) # NoError
    /\ \A j \in 1..(k - 1) : ErrorWithin(seq, j) = NoError

\* the message of the earliest stage that the input violates, "" when it
\* violates none
StageError ==
  IF InputLines = <<>> THEN ErrEmpty
  ELSE IF Len(InputLines) = 1 THEN ErrNoRows
  ELSE IF HeaderLacks THEN ErrColumns
  ELSE IF MalformedRows # {}
    THEN IF BadDate(InputLines[FirstMalformed]) THEN ErrDate ELSE ErrNumber
  ELSE LET chronological == ByKey(ParsedRows)
       IN  ErrorWithin(chronological, Len(chronological)).message

AccountingErrors == {ErrNonPositive, ErrNoPosition, ErrOversold}

\* C22: the failure of calculateProfitLossCsv is that of the earliest stage
\* the input violates, in the order: empty input, no data rows, missing
\* columns, the first malformed row in input order, the first offending Sell
\* in chronological order; an input that violates no stage does not fail.
C22_StageOrder ==
  /\ pc = "failed" =>
       /\ error.message = StageError
       /\ error.message \in AccountingErrors =>
            /\ IsSell(record.orderType)
            /\ LET chronological == ByKey(ParsedRows) IN
               record.originalIndex =
                 chronological[FirstOffender(chronological)].originalIndex
  /\ pc \in {"returned", "built", "done"} => StageError = ""

\* a Sell row without a position and then a row whose number does not parse:
\* the run has failed on the number
C22_Witness ==
  /\ pc = "failed"
  /\ Len(InputLines) = 3
  /\ InputLines[1] = Required
  /\ InputLines[2][2] = "SELL"
  /\ MalformedRows = {3}
  /\ error.message = ErrNumber

----------------------------------------------------------------------------
(* The two engines *)

\* the legacy loop over the records the validating loop has consumed
LegacySoFar == LegacyLoop(sorted, idx, Len(records))

\* the same up to the record before the last one consumed
LegacyBefore == LegacyLoop(sorted, idx - 1, Len(records))

Positive(position) ==
  RLt(Zero, position.quantity) /\ RLt(Zero, position.totalCost)

RefusedSell == pc = "failed" /\ error.message \in AccountingErrors

LegacyAgrees ==
  (pc \in {"loop", "returned"} /\ error = NoError) =>
    /\ LegacySoFar.positions = positions
    /\ LegacySoFar.plByIndex = profitLossByIndex

\* C23 as stated: the legacy loop agrees with the validating engine as long
\* as that engine succeeds, and goes over every Sell the engine refuses with
\* an average cost of 0.
C23_AsStated ==
  /\ LegacyAgrees
  /\ RefusedSell =>
       LegacyAvgCostPerShare(Held(LegacyBefore.positions, record.asxCode)) = Zero

\* C23 amended: the legacy loop passes through the Position states and the
\* P/L values of the validating engine as long as that engine succeeds; on the
\* Sell the engine refuses it starts from the same Positions and carries on,
\* with an average cost of 0 when the quantity or the cost held is not
\* positive and with the average cost of the position otherwise; past a Sell
\* of more than is held its quantity is negative.
C23_LegacyAgrees ==
  /\ LegacyAgrees
  /\ RefusedSell =>
       LET held == Held(LegacyBefore.positions, record.asxCode)
           cost == IF Positive(held)
                     THEN RMul(RDiv(held.totalCost, held.quantity), record.quantity)
                   ELSE Zero
       IN  /\ LegacyBefore.positions = [c \in DOMAIN LegacyBefore.positions |-> positions[c]]
           /\ held = Held(positions, record.asxCode)
           /\ LegacySoFar.plByIndex[record.originalIndex + 1] =
                ToFixed2(RSub(RMul(record.avgPrice, record.quantity), cost))
           /\ error.message = ErrOversold =>
                RLt(Held(LegacySoFar.positions, record.asxCode).quantity, Zero)

\* a Sell of a part of the position has gone through, and the next Sell, of
\* more than is left, is refused: the legacy loop holds a negative quantity
C23_Witness ==
  /\ RefusedSell
  /\ error.message = ErrOversold
  /\ \E k \in 1..Len(profitLossByIndex) : profitLossByIndex[k] # Blank
  /\ LegacyAvgCostPerShare(Held(LegacyBefore.positions, "AAA")) # Zero
  /\ RLt(Held(LegacySoFar.positions, "AAA").quantity, Zero)

====
